---- MODULE Spec2Model ----
(***************************************************************************)
(* Model of attention_decoder.ipynb: the decode drivers calc_decoder_loss   *)
(* and translate, the attention window they hand to the decoder, and the    *)
(* train loop around calc_decoder_loss.                                     *)
(*                                                                          *)
(* The networks themselves (Encoder.forward, AttentionDecoder.forward) are  *)
(* left blank in the notebook ("..."): the decoder's prediction is every    *)
(* possible token of the vocabulary, the encoder's outputs are opaque       *)
(* vectors, one per source position.                                        *)
(***************************************************************************)
EXTENDS Integers, Sequences, FiniteSets, TLC

VARIABLES
    pc,               \* position in the notebook's code
    epoch,            \* train: for epoch in range(epochs)
    i,                \* train: for i in range(data.pairs.shape[0])
    eng_sentence,     \* source token ids of the current pair
    fra_sentence,     \* target token ids of the current pair (train)
    out,              \* encoder outputs, shape (seq_len, 1, hidden)
    h,                \* recurrent state handed from step to step
    encoder_outputs,  \* the attention window, shape (max_length, hidden)
    teacher_forcing,  \* calc_decoder_loss: teacher_forcing argument
    word,             \* token fed to the next decoder invocation
    j,                \* loop index of the decode loop (0-based, as in Python)
    loss,             \* calc_decoder_loss: the terms summed into loss so far
    translation,      \* translate: the produced token ids
    printed,          \* translate: the words written after 'Model translation:'
    exit,             \* how the last decode loop ended: "none", "break", "exhausted"
    fed,              \* history: the arguments of every decoder invocation of the loop
    cycle,            \* history: the train events of the current sentence
    enc_steps,        \* number of optim_encoder.step() calls so far
    dec_steps         \* number of optim_decoder.step() calls so far

vars == << pc, epoch, i, eng_sentence, fra_sentence, out, h, encoder_outputs,
           teacher_forcing, word, j, loss, translation, printed, exit, fed,
           cycle, enc_steps, dec_steps >>

---------------------------------------------------------------------------
(* Program constants *)

SOS == 0
EOS == 1
max_length == 10
epochs == 2        \* the notebook leaves the number to be filled in

(* Bounds of the model *)

NWords == 3        \* size of the target vocabulary (fra.n_words), SOS and EOS included
HiddenSize == 2    \* width of an encoder output vector
MaxSrcLen == 11    \* longest source sentence of the corpus
MaxTgtLen == 3     \* longest target sentence of the corpus
NumPairs == 2      \* data.pairs.shape[0]

Vocab == 0 .. (NWords - 1)

---------------------------------------------------------------------------
(* Helpers on sequences *)

Min(a, b) == IF a <= b THEN a ELSE b

\* Python's s[:-1]
DropLast(s) == SubSeq(s, 1, Len(s) - 1)

RECURSIVE Concat(_)
Concat(ss) == IF ss = << >> THEN << >> ELSE Head(ss) \o Concat(Tail(ss))

---------------------------------------------------------------------------
(* The corpus: data.idx_pairs is supplied by utils.Data, outside the       *)
(* notebook. A sentence is a non-empty sequence of token ids (the notebook  *)
(* strips its last token with [:-1] and divides by len(fra_sentence)).     *)

SentenceOfLen(n) == [k \in 1 .. n |-> IF k = n THEN EOS ELSE 2]

Sources == { SentenceOfLen(n) : n \in 1 .. MaxSrcLen }

\* Target sentences: every sequence of EOS and a word, EOS at any position.
Targets == UNION { [1 .. n -> {EOS, 2}] : n \in 1 .. MaxTgtLen }

\* The pairs: every source length and every target occur; the lengths of a
\* pair differ in general.
Corpus ==
    { pair \in Sources \X Targets :
        Len(pair[2]) = 1 + ((Len(pair[1]) - 1) % MaxTgtLen) }

---------------------------------------------------------------------------
(* Encoder: out, h = encoder(sentence). One output vector per position,    *)
(* shape (seq_len, batch = 1, hidden); the values are opaque, here a code  *)
(* of the position and the token read there. The final state is opaque    *)
(* too: it is named by the tokens the encoder consumed.                    *)

EncoderOut(sentence) ==
    [k \in 1 .. Len(sentence) |->
        << [c \in 1 .. HiddenSize |-> 100 * k + 10 * sentence[k] + c] >>]

EncoderState(sentence) == sentence

(* AttentionDecoder.forward(word, h, encoder_outputs) returns x, h.        *)
(* x is a vector of log-probabilities over the vocabulary; the network's   *)
(* weights are unknown, so every token can be its argmax.                   *)

DecoderX(p) == [v \in Vocab |-> IF v = p THEN 0 ELSE -1]

DecoderState(w, hh) == Append(hh, w)

\* history: one invocation x, h = decoder(word, h, encoder_outputs), its
\* arguments and what it returned
Call(w, hh, window, xx) ==
    [word |-> w, h |-> hh, encoder_outputs |-> window,
     x |-> xx, h_out |-> DecoderState(w, hh)]

\* The decoder reads the window it is handed (it combines its attention
\* weights with it) and does not write to it.
DecoderWindowAfter(window) == window

\* x.argmax()
Argmax(xx) == CHOOSE v \in DOMAIN xx : \A u \in DOMAIN xx : xx[v] >= xx[u]

---------------------------------------------------------------------------
(* The attention window                                                    *)

\* out.shape[-1]
LastDim(o) == Len(o[1][1])

\* out.view(out.shape[0], -1): (seq_len, 1, hidden) -> (seq_len, hidden)
View(o) == [k \in 1 .. Len(o) |-> Concat(o[k])]

\* torch.zeros(max_length, out.shape[-1])
AllocWindowBySentence(o) ==
    [r \in 1 .. Len(o) |-> [c \in 1 .. LastDim(o) |-> 0]]

AllocWindow(o) ==
    [r \in 1 .. max_length |-> [c \in 1 .. LastDim(o) |-> 0]]

\* encoder_outputs[:out.shape[0], :out.shape[-1]] = out.view(out.shape[0], -1)
\* The slice [:n] of a buffer of R rows has min(n, R) rows; the assignment
\* copies a source of n rows into it when n equals that number of rows (or
\* n = 1, which broadcasts) and raises a RuntimeError otherwise.
FillWindowTruncating(buf, o) ==
    LET src == View(o)
        rows == Min(Len(o), Len(buf))
        cols == Min(LastDim(o), Len(buf[1]))
    IN  [ok  |-> TRUE,
         buf |-> [r \in 1 .. Len(buf) |->
                    IF r <= rows
                    THEN [c \in 1 .. Len(buf[r]) |->
                            IF c <= cols THEN src[r][c] ELSE buf[r][c]]
                    ELSE buf[r]]]

FillWindowRightAligned(buf, o) ==
    LET src == View(o)
        n == Len(o)
        R == Len(buf)
    IN  IF n > R
        THEN [ok |-> FALSE, buf |-> buf]
        ELSE [ok  |-> TRUE,
              buf |-> [r \in 1 .. R |->
                         IF r > R - n THEN src[r - (R - n)] ELSE buf[r]]]

FillWindow(buf, o) ==
    LET src == View(o)
        rows == Min(Len(o), Len(buf))
        cols == Min(LastDim(o), Len(buf[1]))
    IN  IF Len(src) = rows \/ Len(src) = 1
        THEN [ok  |-> TRUE,
              buf |-> [r \in 1 .. Len(buf) |->
                         IF r <= rows
                         THEN [c \in 1 .. Len(buf[r]) |->
                                 IF c <= cols
                                 THEN src[IF Len(src) = 1 THEN 1 ELSE r][c]
                                 ELSE buf[r][c]]
                         ELSE buf[r]]]
        ELSE [ok |-> FALSE, buf |-> buf]

---------------------------------------------------------------------------
(* translate                                                               *)

\* for j in range(eng_sentence.shape[0])
StepBoundMaxLength(sentence) == max_length

StepBound(sentence) == Len(sentence)

\* if word.item() == 1: break
TranslateBreaksOnSOS(w) == w = SOS

TranslateBreaks(w) == w = EOS

\* fra.index2word[i]: the word of a token id (utils.Language)
Index2Word(id) == << "fra", id >>

\* ' '.join([fra.index2word[i] for i in translation][:-1]): the words
\* written, in order
Render(tokens) == DropLast([k \in 1 .. Len(tokens) |-> Index2Word(tokens[k])])

\* translate(0, 60), run after train(encoder, decoder)
TranslateStart ==
    /\ pc = "trained"
    /\ pc' = "t_next"
    /\ UNCHANGED << epoch, i, eng_sentence, fra_sentence, out, h,
                    encoder_outputs, teacher_forcing, word, j, loss,
                    translation, printed, exit, fed, cycle, enc_steps,
                    dec_steps >>

\* pair = data.idx_pairs[i]; out, h = encoder(eng_sentence);
\* encoder_outputs = torch.zeros(...)
TranslateEncode(s) ==
    /\ pc = "t_next"
    /\ pc' = "t_fill"
    /\ eng_sentence' = s
    /\ out' = EncoderOut(s)
    /\ h' = EncoderState(s)
    /\ encoder_outputs' = AllocWindow(EncoderOut(s))
    /\ UNCHANGED << epoch, i, fra_sentence, teacher_forcing, word, j, loss,
                    translation, printed, exit, fed, cycle, enc_steps,
                    dec_steps >>

\* encoder_outputs[:out.shape[0], :out.shape[-1]] = ...; word = <SOS>;
\* translation = []. When the assignment raises, translate ends there.
TranslateFill ==
    /\ pc = "t_fill"
    /\ LET res == FillWindow(encoder_outputs, out)
       IN  IF res.ok
           THEN /\ encoder_outputs' = res.buf
                /\ pc' = "t_loop"
                /\ word' = SOS
                /\ translation' = << >>
                /\ j' = 0
           ELSE /\ pc' = "raised"
                /\ UNCHANGED << encoder_outputs, word, translation, j >>
    /\ UNCHANGED << epoch, i, eng_sentence, fra_sentence, out, h,
                    teacher_forcing, loss, printed, exit, fed, cycle,
                    enc_steps, dec_steps >>

\* one pass of the body of the for loop
TranslateStepKeepsState(p) ==
    /\ pc = "t_loop"
    /\ j < StepBound(eng_sentence)
    /\ LET xx == DecoderX(p)
           w  == Argmax(xx)
       IN  /\ fed' = Append(fed, Call(word, h, encoder_outputs, xx))
           /\ h' = h
           /\ word' = w
           /\ translation' = Append(translation, w)
           /\ encoder_outputs' = DecoderWindowAfter(encoder_outputs)
           /\ IF TranslateBreaks(w)
              THEN /\ pc' = "t_print"
                   /\ exit' = "break"
                   /\ j' = j
              ELSE /\ pc' = "t_loop"
                   /\ exit' = exit
                   /\ j' = j + 1
    /\ UNCHANGED << epoch, i, eng_sentence, fra_sentence, out,
                    teacher_forcing, loss, printed, cycle, enc_steps,
                    dec_steps >>

TranslateStepClearsWindow(p) ==
    /\ pc = "t_loop"
    /\ j < StepBound(eng_sentence)
    /\ LET xx == DecoderX(p)
           w  == Argmax(xx)
       IN  /\ fed' = Append(fed, Call(word, h, encoder_outputs, xx))
           /\ h' = DecoderState(word, h)
           /\ word' = w
           /\ translation' = Append(translation, w)
           /\ encoder_outputs' = AllocWindow(out)
           /\ IF TranslateBreaks(w)
              THEN /\ pc' = "t_print"
                   /\ exit' = "break"
                   /\ j' = j
              ELSE /\ pc' = "t_loop"
                   /\ exit' = exit
                   /\ j' = j + 1
    /\ UNCHANGED << epoch, i, eng_sentence, fra_sentence, out,
                    teacher_forcing, loss, printed, cycle, enc_steps,
                    dec_steps >>

TranslateStep(p) ==
    /\ pc = "t_loop"
    /\ j < StepBound(eng_sentence)
    /\ LET xx == DecoderX(p)
           w  == Argmax(xx)
       IN  /\ fed' = Append(fed, Call(word, h, encoder_outputs, xx))
           /\ h' = DecoderState(word, h)
           /\ word' = w
           /\ translation' = Append(translation, w)
           /\ encoder_outputs' = DecoderWindowAfter(encoder_outputs)
           /\ IF TranslateBreaks(w)
              THEN /\ pc' = "t_print"
                   /\ exit' = "break"
                   /\ j' = j
              ELSE /\ pc' = "t_loop"
                   /\ exit' = exit
                   /\ j' = j + 1
    /\ UNCHANGED << epoch, i, eng_sentence, fra_sentence, out,
                    teacher_forcing, loss, printed, cycle, enc_steps,
                    dec_steps >>

\* range(...) is used up
TranslateExhausted ==
    /\ pc = "t_loop"
    /\ j >= StepBound(eng_sentence)
    /\ pc' = "t_print"
    /\ exit' = "exhausted"
    /\ UNCHANGED << epoch, i, eng_sentence, fra_sentence, out, h,
                    encoder_outputs, teacher_forcing, word, j, loss,
                    translation, printed, fed, cycle, enc_steps, dec_steps >>

\* print('\nModel translation:\t', ...)
TranslatePrint ==
    /\ pc = "t_print"
    /\ printed' = Render(translation)
    /\ pc' = "t_done"
    /\ UNCHANGED << epoch, i, eng_sentence, fra_sentence, out, h,
                    encoder_outputs, teacher_forcing, word, j, loss,
                    translation, exit, fed, cycle, enc_steps, dec_steps >>

\* next i of for i in range(start, end): what the sentence left in the
\* locals is assigned anew before it is read again, and is dropped here
TranslateNext ==
    /\ pc = "t_done"
    /\ pc' = "t_next"
    /\ eng_sentence' = << >>
    /\ out' = << >>
    /\ h' = << >>
    /\ encoder_outputs' = << >>
    /\ word' = SOS
    /\ j' = 0
    /\ translation' = << >>
    /\ printed' = << >>
    /\ exit' = "none"
    /\ fed' = << >>
    /\ UNCHANGED << epoch, i, fra_sentence, teacher_forcing, loss, cycle,
                    enc_steps, dec_steps >>

---------------------------------------------------------------------------
(* calc_decoder_loss                                                       *)

\* for j in range(sentence.shape[0])
CalcLossBound(sentence) == Len(sentence)

\* if teacher_forcing: word = sentence[j]  else: word = x.argmax().detach()
NextWordAlwaysArgmax(tf, target, xx) == Argmax(xx)

NextWord(tf, target, xx) == IF tf THEN target ELSE Argmax(xx)

\* if word.item() == 1: break
CalcLossNeverBreaks(w) == FALSE

CalcLossBreaksOnSOS(w) == w = SOS

CalcLossBreaks(w) == w = EOS

\* criterion(x.view(1, -1), sentence[j].view(-1)): one term of the sum
Criterion(xx, target) == [x |-> xx, target |-> target]

\* loss = 0; word = torch.tensor([0])
CalcLossEnter ==
    /\ pc = "cl_enter"
    /\ loss' = << >>
    /\ word' = SOS
    /\ j' = 0
    /\ fed' = << >>
    /\ exit' = "none"
    /\ pc' = "cl_loop"
    /\ UNCHANGED << epoch, i, eng_sentence, fra_sentence, out, h,
                    encoder_outputs, teacher_forcing, translation, printed,
                    cycle, enc_steps, dec_steps >>

\* one pass of the body of the for loop
CalcLossStepChecksEOSFirst(p) ==
    /\ pc = "cl_loop"
    /\ j < CalcLossBound(fra_sentence)
    /\ LET xx == DecoderX(p)
           w  == NextWord(teacher_forcing, fra_sentence[j + 1], xx)
       IN  /\ fed' = Append(fed, Call(word, h, encoder_outputs, xx))
           /\ h' = DecoderState(word, h)
           /\ word' = w
           /\ cycle' = Append(cycle, "decode")
           /\ encoder_outputs' = DecoderWindowAfter(encoder_outputs)
           /\ IF CalcLossBreaks(w)
              THEN /\ pc' = "tr_backward"
                   /\ exit' = "break"
                   /\ j' = j
                   /\ loss' = loss
              ELSE /\ pc' = "cl_loop"
                   /\ exit' = exit
                   /\ j' = j + 1
                   /\ loss' = Append(loss, Criterion(xx, fra_sentence[j + 1]))
    /\ UNCHANGED << epoch, i, eng_sentence, fra_sentence, out,
                    teacher_forcing, translation, printed, enc_steps,
                    dec_steps >>

CalcLossStep(p) ==
    /\ pc = "cl_loop"
    /\ j < CalcLossBound(fra_sentence)
    /\ LET xx == DecoderX(p)
           w  == NextWord(teacher_forcing, fra_sentence[j + 1], xx)
       IN  /\ fed' = Append(fed, Call(word, h, encoder_outputs, xx))
           /\ h' = DecoderState(word, h)
           /\ loss' = Append(loss, Criterion(xx, fra_sentence[j + 1]))
           /\ word' = w
           /\ cycle' = Append(cycle, "decode")
           /\ encoder_outputs' = DecoderWindowAfter(encoder_outputs)
           /\ IF CalcLossBreaks(w)
              THEN /\ pc' = "tr_backward"
                   /\ exit' = "break"
                   /\ j' = j
              ELSE /\ pc' = "cl_loop"
                   /\ exit' = exit
                   /\ j' = j + 1
    /\ UNCHANGED << epoch, i, eng_sentence, fra_sentence, out,
                    teacher_forcing, translation, printed, enc_steps,
                    dec_steps >>

\* range(...) is used up; return loss
CalcLossExhausted ==
    /\ pc = "cl_loop"
    /\ j >= CalcLossBound(fra_sentence)
    /\ pc' = "tr_backward"
    /\ exit' = "exhausted"
    /\ UNCHANGED << epoch, i, eng_sentence, fra_sentence, out, h,
                    encoder_outputs, teacher_forcing, word, j, loss,
                    translation, printed, fed, cycle, enc_steps, dec_steps >>

---------------------------------------------------------------------------
(* train                                                                   *)

\* The notebook leaves the padding of train to be filled in ("pad encoder
\* outputs with zeros if decoder uses attention"): a zero-initialised
\* buffer of max_length slots holding the encoder outputs, cut at
\* max_length.
PadWindow(o) ==
    [r \in 1 .. max_length |->
        IF r <= Len(o) THEN View(o)[r] ELSE [c \in 1 .. LastDim(o) |-> 0]]

\* criterion, optimizers, encoder.train(True), decoder.train(True)
TrainStart ==
    /\ pc = "idle"
    /\ pc' = "tr_epoch"
    /\ epoch' = 0
    /\ UNCHANGED << i, eng_sentence, fra_sentence, out, h, encoder_outputs,
                    teacher_forcing, word, j, loss, translation, printed,
                    exit, fed, cycle, enc_steps, dec_steps >>

\* for epoch in range(epochs): data.shuffle()
TrainEpochBegin ==
    /\ pc = "tr_epoch"
    /\ epoch < epochs
    /\ i' = 0
    /\ pc' = "tr_pair"
    /\ UNCHANGED << epoch, eng_sentence, fra_sentence, out, h,
                    encoder_outputs, teacher_forcing, word, j, loss,
                    translation, printed, exit, fed, cycle, enc_steps,
                    dec_steps >>

\* the epochs are used up: train returns
TrainEnd ==
    /\ pc = "tr_epoch"
    /\ epoch >= epochs
    /\ pc' = "trained"
    /\ cycle' = << >>
    /\ UNCHANGED << epoch, i, eng_sentence, fra_sentence, out, h,
                    encoder_outputs, teacher_forcing, word, j, loss,
                    translation, printed, exit, fed, enc_steps, dec_steps >>

\* optim_decoder.zero_grad()
\* optim_encoder.zero_grad()
\* pair = data.idx_pairs[i] (any pair: the order is data.shuffle()'s)
TrainZeroGradDecoderOnly(s, t) ==
    /\ pc = "tr_pair"
    /\ i < NumPairs
    /\ cycle' = << "zero_grad_dec" >>
    /\ eng_sentence' = s
    /\ fra_sentence' = t
    /\ pc' = "tr_encode"
    /\ UNCHANGED << epoch, i, out, h, encoder_outputs, teacher_forcing, word,
                    j, loss, translation, printed, exit, fed, enc_steps,
                    dec_steps >>

TrainZeroGrad(s, t) ==
    /\ pc = "tr_pair"
    /\ i < NumPairs
    /\ cycle' = << "zero_grad_dec", "zero_grad_enc" >>
    /\ eng_sentence' = s
    /\ fra_sentence' = t
    /\ pc' = "tr_encode"
    /\ UNCHANGED << epoch, i, out, h, encoder_outputs, teacher_forcing, word,
                    j, loss, translation, printed, exit, fed, enc_steps,
                    dec_steps >>

\* out, h = ...; encoder_outputs = ...; teacher_forcing = ...
\* (left to be filled in: encode, pad, choose teacher forcing)
TrainEncode(tf) ==
    /\ pc = "tr_encode"
    /\ out' = EncoderOut(eng_sentence)
    /\ h' = EncoderState(eng_sentence)
    /\ encoder_outputs' = PadWindow(EncoderOut(eng_sentence))
    /\ teacher_forcing' = tf
    /\ cycle' = Append(cycle, "encode")
    /\ pc' = "cl_enter"
    /\ UNCHANGED << epoch, i, eng_sentence, fra_sentence, word, j, loss,
                    translation, printed, exit, fed, enc_steps, dec_steps >>

\* loss.backward(); writer.add_scalar(...)
TrainBackward ==
    /\ pc = "tr_backward"
    /\ cycle' = Append(cycle, "backward")
    /\ pc' = "tr_step"
    /\ UNCHANGED << epoch, i, eng_sentence, fra_sentence, out, h,
                    encoder_outputs, teacher_forcing, word, j, loss,
                    translation, printed, exit, fed, enc_steps, dec_steps >>

\* optim_decoder.step(); optim_encoder.step(); next i. What the sentence
\* left in the locals is assigned anew before it is read again, and is
\* dropped here.
TrainOptimStep ==
    /\ pc = "tr_step"
    /\ dec_steps' = dec_steps + 1
    /\ enc_steps' = enc_steps + 1
    /\ cycle' = cycle \o << "step_dec", "step_enc" >>
    /\ i' = i + 1
    /\ pc' = "tr_pair"
    /\ eng_sentence' = << >>
    /\ fra_sentence' = << >>
    /\ out' = << >>
    /\ h' = << >>
    /\ encoder_outputs' = << >>
    /\ teacher_forcing' = FALSE
    /\ word' = SOS
    /\ j' = 0
    /\ loss' = << >>
    /\ exit' = "none"
    /\ fed' = << >>
    /\ UNCHANGED << epoch, translation, printed >>

\* the pairs are used up: print(f'epoch {epoch}'), next epoch
TrainEpochEnd ==
    /\ pc = "tr_pair"
    /\ i >= NumPairs
    /\ epoch' = epoch + 1
    /\ pc' = "tr_epoch"
    /\ UNCHANGED << i, eng_sentence, fra_sentence, out, h, encoder_outputs,
                    teacher_forcing, word, j, loss, translation, printed,
                    exit, fed, cycle, enc_steps, dec_steps >>

---------------------------------------------------------------------------
(* The notebook: encoder and decoder are constructed, then the cell that   *)
(* calls train and the cell that calls translate are run, in this order.   *)

Init ==
    /\ pc = "idle"
    /\ epoch = 0
    /\ i = 0
    /\ eng_sentence = << >>
    /\ fra_sentence = << >>
    /\ out = << >>
    /\ h = << >>
    /\ encoder_outputs = << >>
    /\ teacher_forcing = FALSE
    /\ word = SOS
    /\ j = 0
    /\ loss = << >>
    /\ translation = << >>
    /\ printed = << >>
    /\ exit = "none"
    /\ fed = << >>
    /\ cycle = << >>
    /\ enc_steps = 0
    /\ dec_steps = 0

Next ==
    \/ TranslateStart
    \/ \E pair \in Corpus : TranslateEncode(pair[1])
    \/ TranslateFill
    \/ \E p \in Vocab : TranslateStep(p)
    \/ TranslateExhausted
    \/ TranslatePrint
    \/ TranslateNext
    \/ TrainStart
    \/ TrainEpochBegin
    \/ TrainEnd
    \/ \E pair \in Corpus : TrainZeroGrad(pair[1], pair[2])
    \/ \E tf \in BOOLEAN : TrainEncode(tf)
    \/ CalcLossEnter
    \/ \E p \in Vocab : CalcLossStep(p)
    \/ CalcLossExhausted
    \/ TrainBackward
    \/ TrainOptimStep
    \/ TrainEpochEnd

Spec == Init /\ [][Next]_vars

---------------------------------------------------------------------------
(* Properties                                                              *)

Last(s) == s[Len(s)]

Prefix(s, n) == SubSeq(s, 1, IF n <= Len(s) THEN n ELSE Len(s))

\* translate has left its decode loop / is in or past it
TranslateLoopLeft == pc \in {"t_print", "t_done"}
TranslateWindowBuilt == pc \in {"t_loop", "t_print", "t_done"}

\* calc_decoder_loss is in its loop or has returned to train
CalcLossRunning == pc \in {"cl_loop", "tr_backward"}
CalcLossReturned == pc = "tr_backward"

\* C1: the token sequence translate produces for a sentence never has more
\* tokens than the source sentence has, whatever the decoder predicts.
C1_TranslationWithinSourceLength ==
    pc \in {"t_loop", "t_print", "t_done"} =>
        Len(translation) <= Len(eng_sentence)

\* a sentence shorter than max_length whose loop used up its bound
C1_Witness ==
    /\ pc = "t_done"
    /\ exit = "exhausted"
    /\ Len(eng_sentence) = 3
    /\ Len(translation) = 3
    /\ Len(eng_sentence) < max_length

\* C2: when the decode loop of translate is left by the break on a predicted
\* EOS, the produced sequence ends with EOS and holds EOS nowhere earlier.
C2_BreakMeansTrailingEOSOnly ==
    (TranslateLoopLeft /\ exit = "break") =>
        /\ translation # << >>
        /\ Last(translation) = EOS
        /\ \A k \in 1 .. (Len(translation) - 1) : translation[k] # EOS

C2_Witness ==
    /\ pc = "t_done"
    /\ exit = "break"
    /\ Len(translation) = 3
    /\ Last(translation) = EOS

\* the produced tokens without a trailing EOS, as words
StripTrailingEOS(tokens) ==
    IF tokens # << >> /\ Last(tokens) = EOS
    THEN SubSeq(tokens, 1, Len(tokens) - 1)
    ELSE tokens

\* C3: the translation written is the produced sequence with only the
\* trailing EOS stripped: every produced token other than EOS is written,
\* also when the loop used up its bound without an EOS.
C3_RenderedStripsOnlyEOS ==
    pc = "t_done" =>
        printed = [k \in 1 .. Len(StripTrailingEOS(translation)) |->
                      << "fra", StripTrailingEOS(translation)[k] >>]

C5_WindowHasMaxLengthSlots ==
    encoder_outputs # << >> => Len(encoder_outputs) = max_length

C5_Witness ==
    /\ pc = "t_loop"
    /\ Len(eng_sentence) = 4
    /\ Len(out) = 4
    /\ Len(encoder_outputs) = max_length

\* C6: for a sentence with n <= max_length encoder outputs the first n
\* slots of the window are the encoder outputs in source order, and every
\* later slot is the zero vector.
C6_WindowIsOutputsThenZeros ==
    (TranslateWindowBuilt /\ Len(out) <= max_length) =>
        /\ \A r \in 1 .. Len(out) : encoder_outputs[r] = out[r][1]
        /\ \A r \in (Len(out) + 1) .. max_length :
              /\ Len(encoder_outputs[r]) = HiddenSize
              /\ \A c \in 1 .. HiddenSize : encoder_outputs[r][c] = 0

\* max_length = 10, n = 4: slots 4..9 (0-based) are zero
C6_Witness ==
    /\ pc = "t_loop"
    /\ max_length = 10
    /\ Len(eng_sentence) = 4
    /\ \A r \in 1 .. 4 : encoder_outputs[r] = out[r][1]
    /\ \A r \in 5 .. 10 : \A c \in 1 .. HiddenSize : encoder_outputs[r][c] = 0
    /\ \A r \in 1 .. 4 : \E c \in 1 .. HiddenSize : encoder_outputs[r][c] # 0

\* C7: with teacher forcing the words fed to the decoder are SOS followed by
\* the target tokens in order, whatever the decoder predicted.
C7_TeacherForcingFeedsTarget ==
    (CalcLossRunning /\ teacher_forcing) =>
        /\ \A k \in 1 .. Len(fed) :
              fed[k].word = (<< SOS >> \o fra_sentence)[k]
        /\ (pc = "cl_loop" /\ j > 0) => word = fra_sentence[j]

\* three invocations, none of whose predictions was the target token
C7_Witness ==
    /\ pc = "tr_backward"
    /\ teacher_forcing
    /\ Len(fed) = 3
    /\ \A k \in 1 .. 3 : loss[k].x[fra_sentence[k]] < 0
    /\ << fed[1].word, fed[2].word, fed[3].word >>
          = << SOS, fra_sentence[1], fra_sentence[2] >>

\* C8 as claimed: a teacher-forced run invokes the decoder exactly
\* len(targetSequence) times, for every target sequence.
C8_TeacherForcedRunsWholeTarget ==
    (CalcLossReturned /\ teacher_forcing) => Len(fed) = Len(fra_sentence)

\* number of target positions up to and including the first EOS
UpToFirstEOS(target) ==
    IF \E k \in 1 .. Len(target) : target[k] = EOS
    THEN CHOOSE k \in 1 .. Len(target) :
            /\ target[k] = EOS
            /\ \A m \in 1 .. (k - 1) : target[m] # EOS
    ELSE Len(target)

\* C8 as amended: a teacher-forced run invokes the decoder once per target
\* position up to and including the first EOS of the target: exactly
\* len(targetSequence) times when no EOS stands before the last position.
C8_TeacherForcedRunsToFirstEOS ==
    (CalcLossReturned /\ teacher_forcing) =>
        /\ Len(fed) = UpToFirstEOS(fra_sentence)
        /\ Len(fed) <= Len(fra_sentence)
        /\ (\A k \in 1 .. (Len(fra_sentence) - 1) : fra_sentence[k] # EOS)
              => Len(fed) = Len(fra_sentence)

C8_Witness ==
    /\ pc = "tr_backward"
    /\ teacher_forcing
    /\ fra_sentence = << 2, 2, EOS >>
    /\ Len(fed) = 3

\* C9: without teacher forcing the loop makes at most len(targetSequence)
\* decoder steps, and the first step whose argmax is EOS is the last one: no
\* decoder invocation and no loss term follows it.
C9_SelfFedStopsAtPredictedEOS ==
    (CalcLossRunning /\ ~teacher_forcing) =>
        /\ Len(fed) <= Len(fra_sentence)
        /\ Len(loss) = Len(fed)
        /\ \A k \in 1 .. Len(loss) :
              loss[k].x[EOS] = 0 =>
                  /\ k = Len(loss)
                  /\ pc = "tr_backward"
                  /\ exit = "break"

\* EOS predicted at the second of three target positions
C9_Witness ==
    /\ pc = "tr_backward"
    /\ ~teacher_forcing
    /\ exit = "break"
    /\ Len(fra_sentence) = 3
    /\ Len(fed) = 2
    /\ Len(loss) = 2
    /\ loss[2].x[EOS] = 0

\* the events of one sentence of train with k decoder invocations
ExpectedCycle(k) ==
    << "zero_grad_dec", "zero_grad_enc", "encode" >>
        \o [m \in 1 .. k |-> "decode"]
        \o << "backward", "step_dec", "step_enc" >>

Decodes(c) == Cardinality({ k \in 1 .. Len(c) : c[k] = "decode" })

TrainRunning ==
    pc \in {"tr_epoch", "tr_pair", "tr_encode", "cl_enter", "cl_loop",
            "tr_backward", "tr_step"}

\* C10: in train the events of a sentence come in the order zero_grad of
\* both optimizers, encode, decode loop, backward, one step of each
\* optimizer; no optimizer has stepped while a decode loop is in flight, and
\* each optimizer has stepped exactly once per finished sentence.
C10_StepsOnlyBetweenCycles ==
    /\ TrainRunning =>
          /\ cycle = Prefix(ExpectedCycle(Decodes(cycle)), Len(cycle))
          /\ (\E k \in 1 .. Len(cycle) : cycle[k] = "backward")
                => Decodes(cycle) >= 1
          /\ dec_steps = epoch * NumPairs + (IF pc = "tr_epoch" THEN 0 ELSE i)
          /\ enc_steps = dec_steps
    /\ pc \in {"cl_enter", "cl_loop"} =>
          \A k \in 1 .. Len(cycle) :
              cycle[k] \notin {"backward", "step_dec", "step_enc"}
    /\ pc = "tr_pair" /\ i > 0 => cycle = ExpectedCycle(Decodes(cycle))
    /\ pc = "trained" => dec_steps = epochs * NumPairs /\ enc_steps = dec_steps

\* the second sentence of an epoch is finished, after a loop of three steps
C10_Witness ==
    /\ pc = "tr_pair"
    /\ i = 2
    /\ dec_steps = 2
    /\ enc_steps = 2
    /\ cycle = ExpectedCycle(3)

\* C11: the loss of calc_decoder_loss is the sum of one term per decoder
\* invocation made, the term of step j being lossFn of the distribution
\* that invocation returned and targetSequence[j]; the step whose chosen
\* word is EOS has its term too.
C11_LossIsOneTermPerInvocation ==
    CalcLossRunning =>
        /\ Len(loss) = Len(fed)
        /\ \A k \in 1 .. Len(loss) :
              loss[k] = [x |-> fed[k].x, target |-> fra_sentence[k]]

\* the loop left at its second step by an EOS of the target: two terms
C11_Witness ==
    /\ pc = "tr_backward"
    /\ teacher_forcing
    /\ exit = "break"
    /\ fra_sentence = << 2, EOS, 2 >>
    /\ word = EOS
    /\ Len(fed) = 2
    /\ Len(loss) = 2
    /\ loss[2].target = EOS

\* a decode loop of either driver is running or has been left
DecodeLoopEntered ==
    pc \in {"t_loop", "t_print", "t_done", "cl_loop", "tr_backward"}

\* C12: in both decode drivers the first decoder invocation receives SOS and
\* the encoder's final state, every later invocation receives the state the
\* invocation before it returned, and in translate the word of a later
\* invocation is the argmax of the invocation before it.
C12_StateAndWordAreThreaded ==
    DecodeLoopEntered =>
        /\ fed # << >> =>
              /\ fed[1].word = SOS
              /\ fed[1].h = EncoderState(eng_sentence)
        /\ \A k \in 2 .. Len(fed) : fed[k].h = fed[k - 1].h_out
        /\ pc \in {"t_loop", "t_print", "t_done"} =>
              \A k \in 2 .. Len(fed) :
                  \A v \in DOMAIN fed[k - 1].x :
                      fed[k - 1].x[fed[k].word] >= fed[k - 1].x[v]
        /\ pc \in {"t_loop", "cl_loop"} =>
              h = IF fed = << >> THEN EncoderState(eng_sentence)
                  ELSE Last(fed).h_out

\* translate after three invocations: SOS, then the two words predicted
C12_Witness ==
    /\ pc = "t_print"
    /\ Len(fed) = 3
    /\ translation = << 2, 0, EOS >>
    /\ << fed[1].word, fed[2].word, fed[3].word >> = << SOS, 2, 0 >>
    /\ fed[1].h = eng_sentence
    /\ fed[2].h = fed[1].h_out
    /\ fed[3].h = fed[2].h_out
    /\ fed[2].h # fed[1].h

\* C13: the attention window of a sentence is built before the first
\* decode step of that sentence and no decode step changes it: every
\* decoder invocation of the loop received the window as it still is.
C13_WindowIsFixedDuringDecoding ==
    DecodeLoopEntered =>
        /\ Len(encoder_outputs) = max_length
        /\ \A k \in 1 .. Len(fed) :
              fed[k].encoder_outputs = encoder_outputs

\* three invocations of translate on a window that holds encoder outputs
C13_Witness ==
    /\ pc = "t_loop"
    /\ Len(fed) = 3
    /\ encoder_outputs[1] = out[1][1]
    /\ \E c \in 1 .. HiddenSize : encoder_outputs[1][c] # 0
    /\ fed[1].encoder_outputs = fed[3].encoder_outputs
    /\ fed[3].encoder_outputs = encoder_outputs

====
